---- MODULE Spec2Model ----
(***************************************************************************)
(* A state-machine model of ballooning.py: the MainWindow / Canvas pair of *)
(* the balloon marker tool, its event handlers, the painter and the two    *)
(* exporters.                                                              *)
(*                                                                         *)
(* Arithmetic.  The program computes with Python floats.  The model keeps  *)
(* every quantity exact:                                                   *)
(*   - zoom_level is an integer number of hundredths (1.0 is 100);         *)
(*   - a relative coordinate x / view_w is the reduced fraction <<n, d>>;  *)
(*   - a painted coordinate is a number (a + b*sqrt(2)) / d, written       *)
(*     [a |-> a, b |-> b, d |-> d], which is closed under the operations   *)
(*     of the balloon geometry at the eight compass angles.                *)
(* int(...) of a non-negative value is the floor.                          *)
(***************************************************************************)
EXTENDS Integers, Sequences, FiniteSets, TLC

VARIABLES
    source_path,      \* MainWindow.source_path: NoPath or a file of Files
    source_type,      \* MainWindow.source_type: "none", "pdf" or "image"
    base_pixmap,      \* MainWindow.base_pixmap: NoPixmap or <<width, height>>
    markers,          \* MainWindow.markers: sequence of <<rel_x, rel_y, num, angle>>
    undone_markers,   \* MainWindow.undone_markers
    zoom_level,       \* MainWindow.zoom_level, in hundredths
    current_rotation, \* MainWindow.current_rotation, degrees
    spin_size,        \* MainWindow.spin_size.value()
    canvas,           \* the Canvas object: pixmap_item, markers, circle_radius
    saved,            \* the file written by the last perform_save, or NoFile
    message,          \* the message box shown by the last handler, "" if none
    events            \* number of handled events

vars == <<source_path, source_type, base_pixmap, markers, undone_markers,
          zoom_level, current_rotation, spin_size, canvas, saved, message,
          events>>

(***************************************************************************)
(* Bounds of the model.                                                    *)
(***************************************************************************)
MaxEvents == 5
\* the size the scroll area gives the canvas widget
WidgetWidth == 300
WidgetHeight == 200

(***************************************************************************)
(* Exact numbers.                                                          *)
(***************************************************************************)
Abs(n) == IF n < 0 THEN -n ELSE n

RECURSIVE GCD(_, _)
GCD(a, b) == IF b = 0 THEN a ELSE GCD(b, a % b)

\* the reduced fraction n / d, d > 0
Frac(n, d) ==
    LET g == GCD(Abs(n), d) IN <<n \div g, d \div g>>

\* (a + b*sqrt(2)) / d in lowest terms, d > 0
Q(a, b, d) ==
    LET g == GCD(GCD(Abs(a), Abs(b)), d)
    IN  [a |-> a \div g, b |-> b \div g, d |-> d \div g]

QInt(n) == Q(n, 0, 1)
QFrac(f) == Q(f[1], 0, f[2])

QAdd(x, y) ==
    LET l == (x.d \div GCD(x.d, y.d)) * y.d
    IN  Q(x.a * (l \div x.d) + y.a * (l \div y.d),
          x.b * (l \div x.d) + y.b * (l \div y.d), l)

QNeg(x) == [a |-> -x.a, b |-> -x.b, d |-> x.d]
QSub(x, y) == QAdd(x, QNeg(y))

QMul(x, y) ==
    Q(x.a * y.a + 2 * x.b * y.b, x.a * y.b + x.b * y.a, x.d * y.d)

\* the sign of a + b*sqrt(2): -1, 0 or 1
QSign(x) ==
    LET sa == IF x.a > 0 THEN 1 ELSE IF x.a < 0 THEN -1 ELSE 0
        sb == IF x.b > 0 THEN 1 ELSE IF x.b < 0 THEN -1 ELSE 0
    IN  IF sb = 0 THEN sa
        ELSE IF sa = 0 \/ sa = sb THEN sb
        ELSE IF x.a * x.a > 2 * x.b * x.b THEN sa ELSE sb

QZero == QInt(0)
(***************************************************************************)
(* The files the user can pick in the open dialog, and what the libraries  *)
(* read from them.                                                         *)
(***************************************************************************)
NoPath == ""
NoPixmap == <<>>
NullPixmap == <<0, 0>>
NoFile == [path |-> NoPath]

PdfFiles == {"drawing.pdf"}
ImageFiles == {"photo.png", "broken.png"}
Files == PdfFiles \cup ImageFiles

\* path.lower().endswith(".pdf")
EndsWithPdf(path) == path \in PdfFiles

\* page.rect of page 0 of a PDF, in points
PageRect(path) == <<100, 80>>

\* QPixmap(path): the decoded size, or the null pixmap when Qt cannot decode it
QPixmapOf(path) ==
    IF path = "photo.png" THEN <<1500, 1000>> ELSE NullPixmap

\* Image.open(path).size
PilSize(path) ==
    IF path = "photo.png" THEN <<1500, 1000>> ELSE <<40, 30>>

\* page.get_pixmap(matrix=fitz.Matrix(2.0, 2.0))
RenderScale == 2
PagePixmap(path) == <<RenderScale * PageRect(path)[1], RenderScale * PageRect(path)[2]>>

(***************************************************************************)
(* CompassWidget.                                                          *)
(***************************************************************************)
\* buttons_config: <<row, col, angle>>
buttons_config ==
    << <<0, 0, 225>>, <<0, 1, 270>>, <<0, 2, 315>>,
       <<1, 0, 180>>,                <<1, 2, 0>>,
       <<2, 0, 135>>, <<2, 1, 90>>,  <<2, 2, 45>> >>

CompassAngles == {buttons_config[i][3] : i \in 1..Len(buttons_config)}

(***************************************************************************)
(* math.cos(math.radians(a)) and math.sin(math.radians(a)) at the compass  *)
(* angles.                                                                 *)
(***************************************************************************)
HalfSqrt2 == Q(0, 1, 2)

Cos(a) ==
    CASE a = 0 -> QInt(1)
      [] a = 45 -> HalfSqrt2
      [] a = 90 -> QInt(0)
      [] a = 135 -> QNeg(HalfSqrt2)
      [] a = 180 -> QInt(-1)
      [] a = 225 -> QNeg(HalfSqrt2)
      [] a = 270 -> QInt(0)
      [] a = 315 -> HalfSqrt2

Sin(a) ==
    CASE a = 0 -> QInt(0)
      [] a = 45 -> HalfSqrt2
      [] a = 90 -> QInt(1)
      [] a = 135 -> HalfSqrt2
      [] a = 180 -> QInt(0)
      [] a = 225 -> QNeg(HalfSqrt2)
      [] a = 270 -> QInt(-1)
      [] a = 315 -> QNeg(HalfSqrt2)

(***************************************************************************)
(* Canvas.                                                                 *)
(***************************************************************************)
\* Canvas.markers is a reference: either the list object MainWindow.markers
\* names now (shared), or another list object, whose content is own.
CanvasInit ==
    [pixmap_item |-> NoPixmap, shared |-> FALSE, own |-> <<>>, circle_radius |-> 20]

CanvasMarkers == IF canvas.shared THEN markers ELSE canvas.own

\* Canvas.update_view(pixmap, self.markers, radius)
update_view(pixmap, radius) ==
    [pixmap_item |-> pixmap, shared |-> TRUE, own |-> <<>>, circle_radius |-> radius]

\* Canvas.get_image_rect
get_image_rect(cv) ==
    IF cv.pixmap_item = NoPixmap
    THEN [x |-> 0, y |-> 0, width |-> 0, height |-> 0]
    ELSE LET pw == cv.pixmap_item[1]
             ph == cv.pixmap_item[2]
             ww == WidgetWidth
             wh == WidgetHeight
         IN  [x |-> IF ww > pw THEN (ww - pw) \div 2 ELSE 0,
              y |-> IF wh > ph THEN (wh - ph) \div 2 ELSE 0,
              width |-> pw, height |-> ph]

\* one drawn balloon: the filled tail polygon [p_tip, p_base1, p_base2], the
\* circle of radius r about centre, and the number written in it
Balloon(num, angle, r, p_tip, centre, p_base1, p_base2) ==
    [num |-> num, angle |-> angle, r |-> r, tip |-> p_tip, centre |-> centre,
     base1 |-> p_base1, base2 |-> p_base2]

\* _draw_single_balloon placing the centre with the sign of dy reversed
draw_single_balloon_flipped(cv, num, tip_x, tip_y, angle_deg) ==
    LET r == cv.circle_radius
        tail_len == (r * 12) \div 10
        dx == Cos(angle_deg)
        dy == Sin(angle_deg)
        cx == QSub(tip_x, QMul(dx, QInt(tail_len + r)))
        cy == QAdd(tip_y, QMul(dy, QInt(tail_len + r)))
        tail_width_offset == Q(r, 0, 2)
        pdx == QNeg(dy)
        pdy == dx
    IN  Balloon(num, angle_deg, QInt(r), <<tip_x, tip_y>>, <<cx, cy>>,
                <<QAdd(cx, QMul(pdx, tail_width_offset)),
                  QAdd(cy, QMul(pdy, tail_width_offset))>>,
                <<QSub(cx, QMul(pdx, tail_width_offset)),
                  QSub(cy, QMul(pdy, tail_width_offset))>>)

\* Canvas._draw_single_balloon
draw_single_balloon(cv, num, tip_x, tip_y, angle_deg) ==
    LET r == cv.circle_radius
        tail_len == (r * 12) \div 10
        dx == Cos(angle_deg)
        dy == Sin(angle_deg)
        cx == QSub(tip_x, QMul(dx, QInt(tail_len + r)))
        cy == QSub(tip_y, QMul(dy, QInt(tail_len + r)))
        tail_width_offset == Q(r, 0, 2)
        pdx == QNeg(dy)
        pdy == dx
    IN  Balloon(num, angle_deg, QInt(r), <<tip_x, tip_y>>, <<cx, cy>>,
                <<QAdd(cx, QMul(pdx, tail_width_offset)),
                  QAdd(cy, QMul(pdy, tail_width_offset))>>,
                <<QSub(cx, QMul(pdx, tail_width_offset)),
                  QSub(cy, QMul(pdy, tail_width_offset))>>)

\* Canvas.paintEvent: the balloons drawn over the pixmap, in drawing order
paintEvent(cv, cvMarkers) ==
    IF cv.pixmap_item = NoPixmap
    THEN <<>>
    ELSE LET img_rect == get_image_rect(cv)
         IN  [i \in 1..Len(cvMarkers) |->
                LET m == cvMarkers[i]
                    tip_x == QAdd(QInt(img_rect.x),
                                  QMul(QFrac(m[1]), QInt(img_rect.width)))
                    tip_y == QAdd(QInt(img_rect.y),
                                  QMul(QFrac(m[2]), QInt(img_rect.height)))
                IN  draw_single_balloon(cv, m[3], tip_x, tip_y, m[4])]

\* what the canvas shows now
Painted == paintEvent(canvas, CanvasMarkers)

(***************************************************************************)
(* MainWindow.                                                             *)
(***************************************************************************)
\* QPixmap.scaled(w, h, KeepAspectRatio): the largest size of the pixmap's
\* aspect ratio inside w x h, at least 1 x 1
Scaled(pixmap, w, h) ==
    LET rw == (h * pixmap[1]) \div pixmap[2]
        sz == IF rw <= w THEN <<rw, h>> ELSE <<w, (w * pixmap[2]) \div pixmap[1]>>
    IN  <<IF sz[1] > 1 THEN sz[1] ELSE 1, IF sz[2] > 1 THEN sz[2] ELSE 1>>

\* MainWindow.update_view_request: the canvas after it, from the canvas cv
\* before it
update_view_request(cv, pixmap, zoom, size) ==
    IF pixmap = NoPixmap
    THEN cv
    ELSE LET w == (pixmap[1] * zoom) \div 100
             h == (pixmap[2] * zoom) \div 100
         IN  IF w <= 0 \/ h <= 0
             THEN cv
             ELSE update_view(Scaled(pixmap, w, h), (size * zoom) \div 100)

\* the zoom level open_file sets
WideLimit == 1500
InitialZoom(pixmap) == IF pixmap[1] < WideLimit THEN 100 ELSE 50

\* MainWindow.open_file, the dialog returning path
open_file(path) ==
    /\ events < MaxEvents
    /\ events' = events + 1
    /\ message' = ""
    /\ IF path = NoPath
       THEN UNCHANGED <<source_path, source_type, base_pixmap, markers,
                        undone_markers, zoom_level, canvas>>
       ELSE LET pixmap == IF EndsWithPdf(path) THEN PagePixmap(path)
                          ELSE QPixmapOf(path)
                \* self.markers = []: the canvas keeps the list it was given
                kept == [canvas EXCEPT !.shared = FALSE, !.own = CanvasMarkers]
            IN  /\ source_path' = path
                /\ markers' = <<>>
                /\ undone_markers' = <<>>
                /\ source_type' = IF EndsWithPdf(path) THEN "pdf" ELSE "image"
                /\ base_pixmap' = pixmap
                /\ zoom_level' = InitialZoom(pixmap)
                /\ canvas' = update_view_request(kept, pixmap, InitialZoom(pixmap),
                                                 spin_size)
    /\ UNCHANGED <<current_rotation, spin_size, saved>>

\* add_marker numbering from len(markers) instead of len(markers) + 1
add_marker_count_from_zero(x, y) ==
    LET view_w == canvas.pixmap_item[1]
        view_h == canvas.pixmap_item[2]
    IN  Append(markers, <<Frac(x, view_w), Frac(y, view_h), Len(markers),
                          current_rotation>>)

\* MainWindow.add_marker: the marker list after a click at (x, y) of the image
add_marker(x, y) ==
    LET view_w == canvas.pixmap_item[1]
        view_h == canvas.pixmap_item[2]
        rel_x == Frac(x, view_w)
        rel_y == Frac(y, view_h)
        count == Len(markers) + 1
    IN  Append(markers, <<rel_x, rel_y, count, current_rotation>>)

\* mousePressEvent accepting x <= width and y <= height
ClickAccepted_inclusive(px, py, left) ==
    /\ canvas.pixmap_item # NoPixmap
    /\ left
    /\ LET img_rect == get_image_rect(canvas)
           x == px - img_rect.x
           y == py - img_rect.y
       IN  0 <= x /\ x <= img_rect.width /\ 0 <= y /\ y <= img_rect.height

\* Canvas.mousePressEvent: whether a press at widget pixel (px, py) emits
\* marker_added
ClickAccepted(px, py, left) ==
    /\ canvas.pixmap_item # NoPixmap
    /\ left
    /\ LET img_rect == get_image_rect(canvas)
           x == px - img_rect.x
           y == py - img_rect.y
       IN  0 <= x /\ x < img_rect.width /\ 0 <= y /\ y < img_rect.height

\* Canvas.mousePressEvent with the connected slot MainWindow.add_marker
mousePressEvent(px, py, left) ==
    /\ events < MaxEvents
    /\ events' = events + 1
    /\ message' = ""
    /\ IF ClickAccepted(px, py, left)
       THEN LET img_rect == get_image_rect(canvas)
            IN  /\ markers' = add_marker(px - img_rect.x, py - img_rect.y)
                /\ undone_markers' = <<>>
       ELSE UNCHANGED <<markers, undone_markers>>
    /\ UNCHANGED <<source_path, source_type, base_pixmap, zoom_level,
                   current_rotation, spin_size, canvas, saved>>

\* the two lists after MainWindow.undo_marker
undo_result(ms, us) ==
    IF ms # <<>>
    THEN <<SubSeq(ms, 1, Len(ms) - 1), Append(us, ms[Len(ms)])>>
    ELSE <<ms, us>>

\* redo_marker re-adding the oldest undone marker instead of the newest
redo_result_oldest(ms, us) ==
    IF us # <<>>
    THEN <<Append(ms, us[1]), SubSeq(us, 2, Len(us))>>
    ELSE <<ms, us>>

\* the two lists after MainWindow.redo_marker
redo_result(ms, us) ==
    IF us # <<>>
    THEN <<Append(ms, us[Len(us)]), SubSeq(us, 1, Len(us) - 1)>>
    ELSE <<ms, us>>

undo_marker ==
    /\ events < MaxEvents
    /\ events' = events + 1
    /\ message' = ""
    /\ markers' = undo_result(markers, undone_markers)[1]
    /\ undone_markers' = undo_result(markers, undone_markers)[2]
    /\ UNCHANGED <<source_path, source_type, base_pixmap, zoom_level,
                   current_rotation, spin_size, canvas, saved>>

redo_marker ==
    /\ events < MaxEvents
    /\ events' = events + 1
    /\ message' = ""
    /\ markers' = redo_result(markers, undone_markers)[1]
    /\ undone_markers' = redo_result(markers, undone_markers)[2]
    /\ UNCHANGED <<source_path, source_type, base_pixmap, zoom_level,
                   current_rotation, spin_size, canvas, saved>>

clear_all_markers ==
    /\ events < MaxEvents
    /\ events' = events + 1
    /\ message' = ""
    /\ markers' = <<>>
    /\ undone_markers' = <<>>
    /\ UNCHANGED <<source_path, source_type, base_pixmap, zoom_level,
                   current_rotation, spin_size, canvas, saved>>

\* MainWindow.set_rotation, from a click on the compass button of angle
set_rotation(angle) ==
    /\ events < MaxEvents
    /\ events' = events + 1
    /\ message' = ""
    /\ current_rotation' = angle
    /\ UNCHANGED <<source_path, source_type, base_pixmap, markers,
                   undone_markers, zoom_level, spin_size, canvas, saved>>

\* spin_size.setRange(10, 100)
SpinMin == 10
SpinMax == 100
SizeChoices == {11, SpinMax}

\* spin_size.valueChanged, connected to update_view_request
size_changed(value) ==
    /\ events < MaxEvents
    /\ value # spin_size
    /\ events' = events + 1
    /\ message' = ""
    /\ spin_size' = value
    /\ canvas' = update_view_request(canvas, base_pixmap, zoom_level, value)
    /\ UNCHANGED <<source_path, source_type, base_pixmap, markers,
                   undone_markers, zoom_level, current_rotation, saved>>

\* a zoom_in that also resets the marker lists, as open_file does
zoom_in_resetting ==
    /\ events < MaxEvents
    /\ events' = events + 1
    /\ message' = ""
    /\ zoom_level' = zoom_level + 10
    /\ markers' = <<>>
    /\ undone_markers' = <<>>
    /\ canvas' = update_view_request(canvas, base_pixmap, zoom_level + 10, spin_size)
    /\ UNCHANGED <<source_path, source_type, base_pixmap, current_rotation,
                   spin_size, saved>>

\* zoom_level after MainWindow.zoom_in
ZoomStep == 10
zoom_in_level(zoom) == zoom + ZoomStep

\* zoom_level after MainWindow.zoom_out
zoom_out_level(zoom) == IF zoom > 10 THEN zoom - ZoomStep ELSE zoom

\* the canvas after MainWindow.zoom_in
zoom_in_canvas ==
    update_view_request(canvas, base_pixmap, zoom_in_level(zoom_level), spin_size)

\* the canvas after MainWindow.zoom_out
zoom_out_canvas ==
    IF zoom_level > 10
    THEN update_view_request(canvas, base_pixmap, zoom_out_level(zoom_level),
                             spin_size)
    ELSE canvas

zoom_in ==
    /\ events < MaxEvents
    /\ events' = events + 1
    /\ message' = ""
    /\ zoom_level' = zoom_in_level(zoom_level)
    /\ canvas' = zoom_in_canvas
    /\ UNCHANGED <<source_path, source_type, base_pixmap, markers,
                   undone_markers, current_rotation, spin_size, saved>>

zoom_out ==
    /\ events < MaxEvents
    /\ events' = events + 1
    /\ message' = ""
    /\ zoom_level' = zoom_out_level(zoom_level)
    /\ canvas' = zoom_out_canvas
    /\ UNCHANGED <<source_path, source_type, base_pixmap, markers,
                   undone_markers, current_rotation, spin_size, saved>>

\* MainWindow.wheelEvent: ctrl is whether Control alone is held, delta is
\* angleDelta().y()
wheelEvent(ctrl, delta) ==
    /\ events < MaxEvents
    /\ events' = events + 1
    /\ message' = ""
    /\ IF ctrl
       THEN IF delta > 0
            THEN zoom_level' = zoom_in_level(zoom_level) /\ canvas' = zoom_in_canvas
            ELSE zoom_level' = zoom_out_level(zoom_level) /\ canvas' = zoom_out_canvas
       ELSE UNCHANGED <<zoom_level, canvas>>
    /\ UNCHANGED <<source_path, source_type, base_pixmap, markers,
                   undone_markers, current_rotation, spin_size, saved>>

\* zoom_level after the pinch gesture of MainWindow.event, value in hundredths
ZoomLow == 10
ZoomHigh == 500
pinch_level(zoom, value) ==
    LET z == zoom + (value * 15) \div 10
    IN  IF z < ZoomLow THEN ZoomLow ELSE IF z > ZoomHigh THEN ZoomHigh ELSE z

\* event.value() of the gestures tried, in hundredths
PinchValues == {-56, 400}

\* MainWindow.event with a NativeGesture of type ZoomNativeGesture
pinch(value) ==
    /\ events < MaxEvents
    /\ events' = events + 1
    /\ message' = ""
    /\ zoom_level' = pinch_level(zoom_level, value)
    /\ canvas' = update_view_request(canvas, base_pixmap,
                                     pinch_level(zoom_level, value), spin_size)
    /\ UNCHANGED <<source_path, source_type, base_pixmap, markers,
                   undone_markers, current_rotation, spin_size, saved>>

(***************************************************************************)
(* Export.                                                                 *)
(***************************************************************************)
\* the balloon _save_pdf_vector draws for one marker on a page_w x page_h page
pdf_balloon(m, page_w, page_h, base_size) ==
    LET tip_x == QMul(QFrac(m[1]), QInt(page_w))
        tip_y == QMul(QFrac(m[2]), QInt(page_h))
        r == base_size
        tail_len == Q(r * 12, 0, 10)
        dx == Cos(m[4])
        dy == Sin(m[4])
        cx == QSub(tip_x, QMul(dx, QAdd(tail_len, QInt(r))))
        cy == QSub(tip_y, QMul(dy, QAdd(tail_len, QInt(r))))
        pdx == QNeg(dy)
        pdy == dx
        tail_w == Q(r, 0, 2)
    IN  Balloon(m[3], m[4], QInt(r), <<tip_x, tip_y>>, <<cx, cy>>,
                <<QAdd(cx, QMul(pdx, tail_w)), QAdd(cy, QMul(pdy, tail_w))>>,
                <<QSub(cx, QMul(pdx, tail_w)), QSub(cy, QMul(pdy, tail_w))>>)

\* _save_pdf_vector drawing the undone markers too
save_pdf_vector_with_undone(out_path) ==
    LET page_w == PageRect(source_path)[1]
        page_h == PageRect(source_path)[2]
        all == markers \o undone_markers
    IN  [path |-> out_path, kind |-> "pdf", width |-> page_w, height |-> page_h,
         font |-> "helv",
         balloons |-> [i \in 1..Len(all) |->
                         pdf_balloon(all[i], page_w, page_h, spin_size)]]

\* MainWindow._save_pdf_vector: the file written
save_pdf_vector(out_path) ==
    LET page_w == PageRect(source_path)[1]
        page_h == PageRect(source_path)[2]
        base_size == spin_size
    IN  [path |-> out_path, kind |-> "pdf", width |-> page_w, height |-> page_h,
         font |-> "helv",
         balloons |-> [i \in 1..Len(markers) |->
                         pdf_balloon(markers[i], page_w, page_h, base_size)]]

\* MainWindow._pil_draw_balloon: the balloon drawn on the w x h overlay
pil_draw_balloon(rx, ry, num, angle, w, h, r) ==
    LET tip_x == QMul(QFrac(rx), QInt(w))
        tip_y == QMul(QFrac(ry), QInt(h))
        tail_len == (r * 12) \div 10
        dx == Cos(angle)
        dy == Sin(angle)
        cx == QSub(tip_x, QMul(dx, QInt(tail_len + r)))
        cy == QSub(tip_y, QMul(dy, QInt(tail_len + r)))
        pdx == QNeg(dy)
        pdy == dx
        tail_w == Q(r, 0, 2)
    IN  Balloon(num, angle, QInt(r), <<tip_x, tip_y>>, <<cx, cy>>,
                <<QAdd(cx, QMul(pdx, tail_w)), QAdd(cy, QMul(pdy, tail_w))>>,
                <<QSub(cx, QMul(pdx, tail_w)), QSub(cy, QMul(pdy, tail_w))>>)

font_candidates ==
    <<"arial.ttf", "Arial.ttf", "/Library/Fonts/Arial.ttf",
      "/usr/share/fonts/truetype/dejavu/DejaVuSans-Bold.ttf",
      "C:\\Windows\\Fonts\\arial.ttf">>

FontNames == {font_candidates[i] : i \in 1..Len(font_candidates)}

\* the font loop without its break: the last loadable candidate wins
RECURSIVE load_font_no_break(_, _)
load_font_no_break(i, loadable) ==
    IF i > Len(font_candidates)
    THEN "default"
    ELSE LET later == load_font_no_break(i + 1, loadable)
         IN  IF later # "default" THEN later
             ELSE IF font_candidates[i] \in loadable THEN font_candidates[i]
             ELSE "default"

\* the font loop of _save_image_raster from candidate i on: loadable is the
\* set of names ImageFont.truetype loads, every other name raises OSError
RECURSIVE load_font(_, _)
load_font(i, loadable) ==
    IF i > Len(font_candidates)
    THEN "default"
    ELSE IF font_candidates[i] \in loadable
         THEN font_candidates[i]
         ELSE load_font(i + 1, loadable)

\* a point of the overlay after overlay.resize((orig_w, orig_h))
SUPERSAMPLE == 4
ResizePoint(p) == <<QMul(p[1], Q(1, 0, SUPERSAMPLE)), QMul(p[2], Q(1, 0, SUPERSAMPLE))>>

\* a balloon of the overlay after overlay.resize((orig_w, orig_h))
ResizeBalloon(b) ==
    Balloon(b.num, b.angle, QMul(b.r, Q(1, 0, SUPERSAMPLE)), ResizePoint(b.tip),
            ResizePoint(b.centre), ResizePoint(b.base1), ResizePoint(b.base2))

\* the radius _save_image_raster draws with on the overlay
ScaleBase == 1000
final_radius(user_r, orig_w) ==
    (user_r * (IF orig_w > ScaleBase THEN orig_w ELSE ScaleBase) * SUPERSAMPLE)
        \div ScaleBase

\* step 5 of _save_image_raster: the balloons drawn on the overlay
image_overlay ==
    LET orig_w == PilSize(source_path)[1]
        orig_h == PilSize(source_path)[2]
        super_w == orig_w * SUPERSAMPLE
        super_h == orig_h * SUPERSAMPLE
        final_r == final_radius(spin_size, orig_w)
    IN  [i \in 1..Len(markers) |->
           pil_draw_balloon(markers[i][1], markers[i][2], markers[i][3],
                            markers[i][4], super_w, super_h, final_r)]

\* MainWindow._save_image_raster: the file written
save_image_raster(out_path, loadable) ==
    LET orig_w == PilSize(source_path)[1]
        orig_h == PilSize(source_path)[2]
        font == load_font(1, loadable)
        overlay == image_overlay
    IN  [path |-> out_path, kind |-> "image", width |-> orig_w, height |-> orig_h,
         font |-> font,
         balloons |-> [i \in 1..Len(overlay) |-> ResizeBalloon(overlay[i])]]

\* MainWindow.perform_save: the file written
perform_save(out_path, loadable) ==
    IF source_type = "pdf"
    THEN save_pdf_vector(out_path)
    ELSE save_image_raster(out_path, loadable)

\* save_file refusing only when both the path and the markers are missing
nothing_to_save_both == source_path = NoPath /\ markers = <<>>

\* whether MainWindow.save_file refuses with the "Nothing to save!" warning
nothing_to_save == source_path = NoPath \/ markers = <<>>

\* MainWindow.save_file, the save dialog returning out_path, with loadable the
\* fonts installed
save_file(out_path, loadable) ==
    /\ events < MaxEvents
    /\ events' = events + 1
    /\ IF nothing_to_save
       THEN /\ message' = "Nothing to save!"
            /\ UNCHANGED saved
       ELSE IF out_path = NoPath
            THEN /\ message' = ""
                 /\ UNCHANGED saved
            ELSE /\ saved' = perform_save(out_path, loadable)
                 /\ message' = "File saved successfully."
    /\ UNCHANGED <<source_path, source_type, base_pixmap, markers,
                   undone_markers, zoom_level, current_rotation, spin_size, canvas>>

(***************************************************************************)
(* The program.                                                            *)
(***************************************************************************)
\* MainWindow.__init__ and Canvas.__init__
Init ==
    /\ source_path = NoPath
    /\ source_type = "none"
    /\ base_pixmap = NoPixmap
    /\ markers = <<>>
    /\ undone_markers = <<>>
    /\ zoom_level = 100
    /\ current_rotation = 0
    /\ spin_size = 20
    /\ canvas = CanvasInit
    /\ saved = NoFile
    /\ message = ""
    /\ events = 0

\* the widget pixels clicked: the corners of the image rectangle and the
\* pixels just outside it
ClickPoints ==
    LET rc == get_image_rect(canvas)
    IN  { <<rc.x, rc.y>>,
          <<rc.x + rc.width - 1, rc.y + rc.height - 1>>,
          <<rc.x - 1, rc.y>>,
          <<rc.x + rc.width, rc.y + rc.height - 1>>,
          <<rc.x, rc.y + rc.height>> }

\* the presses tried: the left button at each point, another button at one
Presses ==
    {<<p[1], p[2], TRUE>> : p \in ClickPoints}
        \cup {<<get_image_rect(canvas).x, get_image_rect(canvas).y, FALSE>>}

\* the wheel events tried: <<Control held, angleDelta().y()>>
WheelEvents == {<<TRUE, 120>>, <<TRUE, -120>>, <<FALSE, 120>>}

OutPaths == {NoPath, "marked"}

\* the sets of installed fonts tried: none, any one, or all of the
\* candidates; the fonts are looked at only by an image export
FontSets ==
    IF source_type = "image" /\ ~nothing_to_save
    THEN {{}, FontNames} \cup {{f} : f \in FontNames}
    ELSE {{}}

Next ==
    \/ \E path \in Files \cup {NoPath} : open_file(path)
    \/ \E p \in Presses : mousePressEvent(p[1], p[2], p[3])
    \/ undo_marker
    \/ redo_marker
    \/ clear_all_markers
    \/ \E angle \in CompassAngles : set_rotation(angle)
    \/ \E value \in SizeChoices : size_changed(value)
    \/ zoom_in
    \/ zoom_out
    \/ \E e \in WheelEvents : wheelEvent(e[1], e[2])
    \/ \E value \in PinchValues : pinch(value)
    \/ \E out_path \in OutPaths, loadable \in FontSets :
          save_file(out_path, loadable)

Spec == Init /\ [][Next]_vars

(***************************************************************************)
(* Properties.                                                             *)
(***************************************************************************)
AllStored == {markers[i] : i \in 1..Len(markers)}
                 \cup {undone_markers[i] : i \in 1..Len(undone_markers)}

\* C1: the i-th entry of MainWindow.markers carries the number i, so the
\* numbers of the markers are distinct and exactly 1..len(markers) in list
\* order, after any sequence of events.
C1_NumbersAreIndices ==
    \A i \in 1..Len(markers) : markers[i][3] = i

\* C1 witness: markers placed, one of them undone
C1_Witness ==
    /\ Len(markers) >= 2
    /\ undone_markers # <<>>

\* C2: undo_marker on a non-empty list moves exactly the last marker onto
\* undone_markers and a redo_marker right after it restores both lists;
\* redo_marker on a non-empty undo stack moves its top back and an undo_marker
\* right after it restores both lists; on an empty list each changes nothing.
C2_UndoRedoInverse ==
    [][/\ undo_marker =>
            IF markers # <<>>
            THEN /\ markers' \o <<markers[Len(markers)]>> = markers
                 /\ undone_markers' = undone_markers \o <<markers[Len(markers)]>>
                 /\ redo_result(markers', undone_markers') = <<markers, undone_markers>>
            ELSE markers' = markers /\ undone_markers' = undone_markers
       /\ redo_marker =>
            IF undone_markers # <<>>
            THEN /\ markers' = markers \o <<undone_markers[Len(undone_markers)]>>
                 /\ undone_markers' \o <<undone_markers[Len(undone_markers)]>>
                        = undone_markers
                 /\ undo_result(markers', undone_markers') = <<markers, undone_markers>>
            ELSE markers' = markers /\ undone_markers' = undone_markers
      ]_vars

\* C2 witness: two markers undone, one left
C2_Witness ==
    /\ Len(undone_markers) = 1
    /\ Len(markers) = 1
    /\ undone_markers[1][3] = 2

\* C3: every marker in markers or undone_markers has 0 <= rel_x < 1 and
\* 0 <= rel_y < 1, for every sequence of open, zoom, size and click events.
C3_RelativeInUnitRange ==
    \A m \in AllStored :
        /\ 0 <= m[1][1] /\ m[1][1] < m[1][2]
        /\ 0 <= m[2][1] /\ m[2][1] < m[2][2]

\* C3 witness: a marker placed at the far corner of a zoomed view
C3_Witness ==
    /\ zoom_level \notin {50, 100}
    /\ \E m \in AllStored : m[1][1] > 0 /\ m[2][1] > 0

\* C4: zoom_in, zoom_out, the Ctrl+wheel zoom, the pinch gesture, a change of
\* the size spin box and set_rotation leave markers and undone_markers
\* unchanged.
C4_ViewEventsKeepMarkers ==
    [][(\/ zoom_in
        \/ zoom_out
        \/ \E e \in WheelEvents : wheelEvent(e[1], e[2])
        \/ \E value \in PinchValues : pinch(value)
        \/ \E value \in SizeChoices : size_changed(value)
        \/ \E angle \in CompassAngles : set_rotation(angle))
       => markers' = markers /\ undone_markers' = undone_markers]_vars

\* C4 witness: markers and undone markers in a view that was zoomed, resized
\* and rotated
C4_Witness ==
    /\ markers # <<>>
    /\ undone_markers # <<>>
    /\ zoom_level \notin {50, 100}

\* what the canvas shows after the step
PaintedNext == paintEvent(canvas', IF canvas'.shared THEN markers' ELSE canvas'.own)

\* C5: after a left click at widget pixel (px, py) inside the image
\* rectangle, paintEvent paints the marker add_marker appended, with its tip
\* at exactly (px, py).
C5_ClickedPointIsPainted ==
    [][\A p \in Presses :
          (mousePressEvent(p[1], p[2], p[3]) /\ ClickAccepted(p[1], p[2], p[3]))
          => \E i \in 1..Len(PaintedNext) :
                /\ PaintedNext[i].num = Len(markers')
                /\ PaintedNext[i].angle = current_rotation
                /\ PaintedNext[i].tip = <<QInt(p[1]), QInt(p[2])>>
      ]_vars

\* an export that reaches perform_save: something to save and a path chosen
Exports(out_path, loadable) ==
    /\ save_file(out_path, loadable)
    /\ source_path # NoPath
    /\ markers # <<>>
    /\ out_path # NoPath

\* balloon b of a width x height output belongs to marker m: its number and
\* angle, and its tip at (rel_x * width, rel_y * height)
BurnsIn(b, m, width, height) ==
    /\ b.num = m[3]
    /\ b.angle = m[4]
    /\ QMul(b.tip[1], QInt(m[1][2])) = QInt(m[1][1] * width)
    /\ QMul(b.tip[2], QInt(m[2][2])) = QInt(m[2][1] * height)

\* C6: perform_save (PDF or image) draws one balloon for each entry of
\* markers, in list order, with the entry's number and angle and its tip at
\* (rel_x * output width, rel_y * output height); it draws nothing for
\* undone_markers, and leaves both lists unchanged.
C6_ExportBurnsInMarkers ==
    [][\A out_path \in OutPaths, loadable \in FontSets :
          Exports(out_path, loadable)
          => /\ markers' = markers
             /\ undone_markers' = undone_markers
             /\ saved'.path = out_path
             /\ saved'.width = (IF source_type = "pdf" THEN PageRect(source_path)[1]
                                ELSE PilSize(source_path)[1])
             /\ saved'.height = (IF source_type = "pdf" THEN PageRect(source_path)[2]
                                 ELSE PilSize(source_path)[2])
             /\ Len(saved'.balloons) = Len(markers)
             /\ \A i \in 1..Len(markers) :
                   BurnsIn(saved'.balloons[i], markers[i], saved'.width, saved'.height)
      ]_vars

\* C6 witness: a file just written while a marker is undone
C6_Witness ==
    /\ message = "File saved successfully."
    /\ Len(saved.balloons) >= 1
    /\ undone_markers # <<>>

\* the first candidate, in list order, that loads; "default" if none does
FirstLoadable(loadable) ==
    IF \E i \in 1..Len(font_candidates) : font_candidates[i] \in loadable
    THEN font_candidates[CHOOSE i \in 1..Len(font_candidates) :
            /\ font_candidates[i] \in loadable
            /\ \A j \in 1..(i - 1) : font_candidates[j] \notin loadable]
    ELSE "default"

\* C7: an image export uses the first font candidate that loads, or the
\* library default font when every candidate raises OSError, and in both cases
\* draws all markers and writes the output file.
C7_FontFallback ==
    [][\A out_path \in OutPaths, loadable \in FontSets :
          (Exports(out_path, loadable) /\ source_type # "pdf")
          => /\ saved'.font = FirstLoadable(loadable)
             /\ saved'.kind = "image"
             /\ saved'.path = out_path
             /\ Len(saved'.balloons) = Len(markers)
             /\ message' = "File saved successfully."
      ]_vars

\* C7 witness: an image with two markers written with the default font
C7_Witness ==
    /\ message = "File saved successfully."
    /\ saved.kind = "image"
    /\ saved.font = "default"
    /\ Len(saved.balloons) >= 2

\* the compass button of an angle, as <<row, col, angle>>
ButtonOf(angle) ==
    buttons_config[CHOOSE i \in 1..Len(buttons_config) : buttons_config[i][3] = angle]

\* the centre of balloon b lies tail_len + r = floor(1.2 r) + r from its tip
TipDistanceOK(b, r) ==
    LET L == (6 * r) \div 5 + r
        vx == QSub(b.tip[1], b.centre[1])
        vy == QSub(b.tip[2], b.centre[2])
    IN  QAdd(QMul(vx, vx), QMul(vy, vy)) = QInt(L * L)

\* the two base points of balloon b are the centre +/- 0.5 r along the
\* perpendicular (-sin a, cos a) of the direction from the centre to the tip
TailBaseOK(b, r) ==
    LET L == (6 * r) \div 5 + r
        vx == QSub(b.tip[1], b.centre[1])
        vy == QSub(b.tip[2], b.centre[2])
        wx == QSub(b.base1[1], b.centre[1])
        wy == QSub(b.base1[2], b.centre[2])
    IN  /\ QMul(QInt(2 * L), wx) = QMul(QInt(-r), vy)
        /\ QMul(QInt(2 * L), wy) = QMul(QInt(r), vx)
        /\ QAdd(wx, QSub(b.base2[1], b.centre[1])) = QZero
        /\ QAdd(wy, QSub(b.base2[2], b.centre[2])) = QZero
        /\ QAdd(QMul(wx, wx), QMul(wy, wy)) = Q(r * r, 0, 4)

\* the tip of balloon b lies from its centre where the arrow of the compass
\* button of its angle points, in screen coordinates (y down): to the right
\* in column 2, to the left in column 0, below in row 2, above in row 0
PointsAlongCompass(b) ==
    /\ b.angle \in {0, 45, 90, 135, 180, 225, 270, 315}
    /\ QSign(QSub(b.tip[1], b.centre[1])) = ButtonOf(b.angle)[2] - 1
    /\ QSign(QSub(b.tip[2], b.centre[2])) = ButtonOf(b.angle)[1] - 1

\* the radius the image export draws with on its overlay
OverlayRadius == final_radius(spin_size, PilSize(source_path)[1])

SameGeometry(m, w, h, r) ==
    LET screen == draw_single_balloon([circle_radius |-> r], m[3],
                                      QMul(QFrac(m[1]), QInt(w)),
                                      QMul(QFrac(m[2]), QInt(h)), m[4])
        pdf == pdf_balloon(m, w, h, r)
        pil == pil_draw_balloon(m[1], m[2], m[3], m[4], w, h, r)
    IN  /\ screen.centre = pil.centre /\ pil.centre = pdf.centre
        /\ screen.tip = pil.tip /\ pil.tip = pdf.tip
        /\ screen.base1 = pil.base1 /\ pil.base1 = pdf.base1
        /\ screen.base2 = pil.base2 /\ pil.base2 = pdf.base2

\* C9: for the same tip, angle and radius r, every integer r of the spin-box
\* range 10..100, the on-screen painter, the PDF exporter and the raster
\* exporter compute the same tail length, hence the same circle centre and
\* the same three tail-triangle vertices.
C9_RenderersAgree ==
    \A i \in 1..Len(markers) :
        \A r \in SpinMin..SpinMax :
            SameGeometry(markers[i], canvas.pixmap_item[1], canvas.pixmap_item[2], r)

\* C10: when no file is open or the marker list is empty, save_file shows the
\* "Nothing to save!" warning; then, and when the save dialog is cancelled,
\* perform_save is not called: no file is written and source_path, markers,
\* undone_markers and zoom_level are unchanged.
C10_NothingToSave ==
    [][\A out_path \in OutPaths, loadable \in FontSets :
          (/\ save_file(out_path, loadable)
           /\ (source_path = NoPath \/ Len(markers) = 0 \/ out_path = NoPath))
          => /\ saved' = saved
             /\ message' # "File saved successfully."
             /\ (source_path = NoPath \/ Len(markers) = 0)
                    => message' = "Nothing to save!"
             /\ source_path' = source_path
             /\ markers' = markers
             /\ undone_markers' = undone_markers
             /\ zoom_level' = zoom_level
      ]_vars

\* C10 witness: the warning shown for an open file whose markers were all
\* undone
C10_Witness ==
    /\ message = "Nothing to save!"
    /\ source_path # NoPath
    /\ markers = <<>>
    /\ undone_markers # <<>>

\* C11: whenever the canvas displays a pixmap, the marker list it paints
\* (Canvas.markers) has the same content as MainWindow.markers, the list
\* add_marker extends and perform_save exports.
C11_ViewShowsWhatIsSaved ==
    canvas.pixmap_item # NoPixmap => CanvasMarkers = markers

\* C12: 0.1 <= zoom_level <= 5.0 after every sequence of zoom_in, zoom_out,
\* Ctrl+wheel, pinch and open_file events (zoom_level in hundredths).
C12_ZoomWithinClamp ==
    ZoomLow <= zoom_level /\ zoom_level <= ZoomHigh

====
